---- MODULE Spec2Model ----
(***************************************************************************)
(* Model of streamlit_app.py: the tree-map dashboard script.               *)
(*                                                                         *)
(* One pass of the script is a straight line of steps: sidebar controls,   *)
(* two HTTP fetches, initial assignments, tree shaping, forest shaping,    *)
(* derived tables, render.  pc names the step about to execute.            *)
(*                                                                         *)
(* Units and representations                                               *)
(*   - latitudes and longitudes are integers in hundredths of a degree     *)
(*     (40.75 is 4075, -73.95 is -7395);                                   *)
(*   - a float produced by a computation (a mean, astype(float)) is an     *)
(*     exact fraction <<numerator, denominator>> in lowest terms;          *)
(*   - a JSON object is a record, a JSON array a sequence, a Python tuple  *)
(*     a sequence, a DataFrame the sequence of its rows (row k of the      *)
(*     sequence has pandas index k - 1);                                   *)
(*   - a name the script has not bound yet holds a placeholder of the      *)
(*     right shape (Unset...).                                             *)
(***************************************************************************)
EXTENDS Integers, Sequences, FiniteSets, TLC

VARIABLES
    pc,               \* the step of the script about to execute
    view_option,      \* line 12
    zoom_level,       \* line 13
    radius,           \* line 14
    elevation_scale,  \* line 15
    pitch,            \* line 16
    bearing,          \* line 17
    response_trees,   \* line 50
    response_forest,  \* line 51
    tree_locations,   \* lines 53, 59
    df_trees,         \* lines 54, 63
    forest_polygons,  \* lines 55, 67
    df_temp,          \* lines 72-73
    df_aqi,           \* lines 74-75
    layers,           \* line 138
    view_state,       \* line 139
    tooltip,          \* line 147
    chart,            \* what st.pydeck_chart was handed in this pass: <<>> or <<deck>>
    error,            \* the uncaught exception that ended this pass, "" if none
    memo              \* history: one earlier pass, its inputs and its output

vars == <<pc, view_option, zoom_level, radius, elevation_scale, pitch, bearing,
          response_trees, response_forest, tree_locations, df_trees,
          forest_polygons, df_temp, df_aqi, layers, view_state, tooltip,
          chart, error, memo>>

controls == <<view_option, zoom_level, radius, elevation_scale, pitch, bearing>>
responses == <<response_trees, response_forest>>
shaped == <<tree_locations, df_trees, forest_polygons>>
derived == <<df_temp, df_aqi>>
rendering == <<layers, view_state, tooltip, chart>>

----------------------------------------------------------------------------
(* Bounds of the model                                                     *)

\* longest "elements" array of a response in the exhaustive input set
MaxElems == 2
\* longest "elements" array of the long, patterned tree responses
MaxRows == 52

----------------------------------------------------------------------------
(* Numbers                                                                 *)

Abs(n) == IF n < 0 THEN -n ELSE n

RECURSIVE GCD(_, _)
GCD(a, b) == IF b = 0 THEN a ELSE GCD(b, a % b)

\* the fraction n/d (d > 0) in lowest terms
Frac(n, d) ==
    LET g == GCD(Abs(n), d)
    IN  <<n \div g, d \div g>>

\* Index.astype(float): the float with the integer's value
AsFloat(n) == Frac(n, 1)

RECURSIVE SumSeq(_)
SumSeq(s) == IF s = <<>> THEN 0 ELSE Head(s) + SumSeq(Tail(s))

\* Series.mean()
Mean(s) == Frac(SumSeq(s), Len(s))

\* df[col]
Column(df, col) == [k \in 1..Len(df) |-> df[k][col]]

\* dict.get(key, default)
Get(d, key, default) == IF key \in DOMAIN d THEN d[key] ELSE default

----------------------------------------------------------------------------
(* The inputs of a pass: control values and HTTP responses                 *)

\* st.radio options, line 12
ViewOptions ==
    {"Tree Density", "Tree Canopy Coverage", "Heat Island Effect",
     "Air Quality Correlation"}

\* sampled positions of the sliders of lines 14, 15, 17 (both ends of each range)
RadiusChoices == {50, 200}
ElevationChoices == {5, 20}
BearingChoices == {0, 360}

\* the default positions of the sliders of lines 14 and 15
RadiusDefault == {50}
ElevationDefault == {5}

\* elements of an Overpass answer: nodes with a position, and one without
TreeA == [type |-> "node", lat |-> 4075, lon |-> -7395]
TreeB == [type |-> "node", lat |-> 4071, lon |-> -7399]
TreeNoPosition == [type |-> "node"]
TreeElements == {TreeA, TreeB, TreeNoPosition}

\* ways with a geometry, and one without
RingA == << [lat |-> 4070, lon |-> -7400], [lat |-> 4080, lon |-> -7400],
            [lat |-> 4080, lon |-> -7390] >>
RingB == << [lat |-> 4072, lon |-> -7396], [lat |-> 4074, lon |-> -7392] >>
WayA == [type |-> "way", geometry |-> RingA]
WayB == [type |-> "way", geometry |-> RingB]
WayNoGeometry == [type |-> "way"]
ForestElements == {WayA, WayB, WayNoGeometry}

SeqsUpTo(S, n) == UNION { [1..k -> S] : k \in 0..n }

\* a JSON body without an "elements" key
BodyNoElements == [remark |-> "runtime error"]

\* status codes other than 200 that the endpoint answers with
FailureCodes == {429, 504}

Responses(elements) ==
    { [status_code |-> 200, json |-> [elements |-> s]] :
          s \in SeqsUpTo(elements, MaxElems) }
    \cup { [status_code |-> 200, json |-> BodyNoElements] }
    \cup { [status_code |-> c, json |-> BodyNoElements] : c \in FailureCodes }

TreeResponses == Responses(TreeElements)
ForestResponses == Responses(ForestElements)

\* long answers: n nodes, positions following a fixed pattern
PatternElement(k) == IF k % 3 = 0 THEN TreeB ELSE TreeA
LongTreeResponses ==
    { [status_code |-> 200,
       json |-> [elements |-> [k \in 1..n |-> PatternElement(k)]]] :
          n \in 0..MaxRows }
OneForestResponse ==
    { [status_code |-> 200, json |-> [elements |-> <<WayA>>]] }

\* a small input set for sequences of passes
FewTreeResponses ==
    { [status_code |-> 200, json |-> [elements |-> <<TreeA>>]],
      [status_code |-> 200, json |-> [elements |-> <<>>]],
      [status_code |-> 504, json |-> BodyNoElements] }
FewForestResponses ==
    { [status_code |-> 200, json |-> [elements |-> <<WayA>>]],
      [status_code |-> 200, json |-> [elements |-> <<WayNoGeometry>>]],
      [status_code |-> 504, json |-> BodyNoElements] }

----------------------------------------------------------------------------
(* Placeholders for names not bound yet                                    *)

UnsetResponse == [status_code |-> 0, json |-> BodyNoElements]
UnsetViewState ==
    [longitude |-> <<0, 1>>, latitude |-> <<0, 1>>, zoom |-> 0, pitch |-> 0,
     bearing |-> 0]
UnsetTooltip == [html |-> "", style |-> [backgroundColor |-> "", color |-> ""]]

----------------------------------------------------------------------------
(* Record shaping, lines 57-70                                             *)

\* the key whose lookup fails first in the comprehension of lines 59-62, "" if none
TreeKeyError(elements) ==
    IF \A k \in 1..Len(elements) : {"lat", "lon"} \subseteq DOMAIN elements[k]
    THEN ""
    ELSE LET k == CHOOSE i \in 1..Len(elements) :
                      /\ ~({"lat", "lon"} \subseteq DOMAIN elements[i])
                      /\ \A j \in 1..(i - 1) :
                             {"lat", "lon"} \subseteq DOMAIN elements[j]
         IN  IF "lat" \notin DOMAIN elements[k] THEN "KeyError: 'lat'"
                                                ELSE "KeyError: 'lon'"

\* mutant: lat and lon exchanged
TreeLocations_Swapped(elements) ==
    [k \in 1..Len(elements) |->
        [lat |-> elements[k]["lon"], lon |-> elements[k]["lat"]]]

\* lines 59-62
TreeLocations(elements) ==
    [k \in 1..Len(elements) |->
        [lat |-> elements[k]["lat"], lon |-> elements[k]["lon"]]]

\* the key whose lookup fails first in the comprehension of lines 67-70, "" if none
\* (the vertices of every geometry in the input sets carry lon and lat)
ForestKeyError(elements) ==
    IF \A k \in 1..Len(elements) : "geometry" \in DOMAIN elements[k]
    THEN ""
    ELSE "KeyError: 'geometry'"

\* line 68: one ring of (lon, lat) tuples
Ring(geometry) ==
    [k \in 1..Len(geometry) |-> <<geometry[k]["lon"], geometry[k]["lat"]>>]

\* lines 67-70
ForestPolygons(elements) ==
    [k \in 1..Len(elements) |->
        [coordinates |-> << Ring(elements[k]["geometry"]) >>]]

----------------------------------------------------------------------------
(* Derived tables, lines 72-75                                             *)

\* line 73, for the row with pandas index i
Temperature(i) == AsFloat(30 - (i % 5))

\* mutant: the index is not reduced modulo 50
Aqi_NoWrap(i) == AsFloat(100 - i)

\* line 75, for the row with pandas index i
Aqi(i) == AsFloat(100 - (i % 50))

\* lines 72-73
DfTemp(df) ==
    [k \in 1..Len(df) |->
        [lat |-> df[k].lat, lon |-> df[k].lon, temperature |-> Temperature(k - 1)]]

\* lines 74-75
DfAqi(df) ==
    [k \in 1..Len(df) |->
        [lat |-> df[k].lat, lon |-> df[k].lon, aqi |-> Aqi(k - 1)]]

----------------------------------------------------------------------------
(* Layer selection, lines 77-135                                           *)

\* lines 78-92
hex_layer ==
    [type |-> "HexagonLayer", data |-> df_trees,
     get_position |-> <<"lon", "lat">>, radius |-> radius,
     elevation_scale |-> elevation_scale, elevation_range |-> <<0, 1000>>,
     extruded |-> TRUE, coverage |-> 1,
     color_range |-> << <<0, 50, 0>>, <<100, 200, 100>>, <<150, 255, 150>>,
                        <<255, 255, 100>>, <<255, 100, 50>>, <<255, 0, 0>> >>,
     pickable |-> TRUE]

\* lines 93-100
canopy_layer ==
    [type |-> "ScatterplotLayer", data |-> df_trees,
     get_position |-> <<"lon", "lat">>, get_radius |-> 5,
     get_fill_color |-> <<0, 0, 255, 255>>, pickable |-> TRUE]

\* lines 101-108
forest_layer ==
    [type |-> "PolygonLayer", data |-> forest_polygons,
     get_polygon |-> "coordinates", get_fill_color |-> <<0, 100, 0, 150>>,
     get_line_color |-> <<0, 50, 0, 200>>, pickable |-> TRUE]

\* lines 109-115
heat_layer ==
    [type |-> "HeatmapLayer", data |-> df_temp,
     get_position |-> <<"lon", "lat">>, get_weight |-> "temperature",
     radius |-> radius * 2]

\* lines 116-126
aqi_layer ==
    [type |-> "HeatmapLayer", data |-> df_aqi,
     get_position |-> <<"lon", "lat">>, get_weight |-> "aqi",
     radius |-> radius * 2,
     color_range |-> << <<0, 0, 255, 255>>, <<0, 255, 255, 255>>,
                        <<0, 255, 0, 255>>, <<255, 255, 0, 255>>,
                        <<255, 0, 0, 255>> >>]

\* mutant: the polygon layer is left out when there are no polygons
create_layer_DataDependent ==
    IF view_option = "Tree Density" THEN <<hex_layer>>
    ELSE IF view_option = "Tree Canopy Coverage"
         THEN IF forest_polygons = <<>> THEN <<canopy_layer>>
                                        ELSE <<canopy_layer, forest_layer>>
    ELSE IF view_option = "Heat Island Effect" THEN <<heat_layer>>
    ELSE IF view_option = "Air Quality Correlation" THEN <<aqi_layer>>
    ELSE <<>>

\* lines 127-135
create_layer ==
    IF view_option = "Tree Density" THEN <<hex_layer>>
    ELSE IF view_option = "Tree Canopy Coverage" THEN <<canopy_layer, forest_layer>>
    ELSE IF view_option = "Heat Island Effect" THEN <<heat_layer>>
    ELSE IF view_option = "Air Quality Correlation" THEN <<aqi_layer>>
    ELSE <<>>

----------------------------------------------------------------------------
(* View state, tooltip and deck, lines 139-157                             *)

\* line 13
ZoomLevel == 12

\* mutant: the 3D pitch in every mode
Pitch_Always3D(option) == 45

\* line 16
Pitch(option) == IF option = "Tree Density" THEN 45 ELSE 0

\* lines 140-141: the fallback position, in hundredths of a degree
DefaultLon == -7395
DefaultLat == 4075

\* mutant: the lat and lon columns exchanged
ViewState_Swapped(df) ==
    [longitude |-> IF df # <<>> THEN Mean(Column(df, "lat")) ELSE AsFloat(DefaultLon),
     latitude |-> IF df # <<>> THEN Mean(Column(df, "lon")) ELSE AsFloat(DefaultLat),
     zoom |-> zoom_level,
     pitch |-> pitch,
     bearing |-> bearing]

\* lines 139-145
ViewState(df) ==
    [longitude |-> IF df # <<>> THEN Mean(Column(df, "lon")) ELSE AsFloat(DefaultLon),
     latitude |-> IF df # <<>> THEN Mean(Column(df, "lat")) ELSE AsFloat(DefaultLat),
     zoom |-> zoom_level,
     pitch |-> pitch,
     bearing |-> bearing]

\* lines 147-150 (the degree sign of line 148 is written as a space)
Tooltip(option) ==
    [html |-> IF option = "Tree Density" THEN "<b>Tree Data:</b> {elevationValue}"
              ELSE IF option = "Heat Island Effect"
                   THEN "<b>Temperature:</b> {temperature} C"
              ELSE IF option = "Air Quality Correlation" THEN "<b>AQI Level:</b> {aqi}"
              ELSE "<b>Tree Canopy Coverage</b>",
     style |-> [backgroundColor |-> "steelblue", color |-> "white"]]

\* lines 152-157
Deck(ls, vs, tt) ==
    [layers |-> ls, initial_view_state |-> vs,
     map_style |-> "mapbox://styles/mapbox/light-v10", tooltip |-> tt]

----------------------------------------------------------------------------
(* The steps of one pass                                                   *)

Init ==
    /\ pc = "sidebar"
    /\ view_option = ""
    /\ zoom_level = 0
    /\ radius = 0
    /\ elevation_scale = 0
    /\ pitch = 0
    /\ bearing = 0
    /\ response_trees = UnsetResponse
    /\ response_forest = UnsetResponse
    /\ tree_locations = <<>>
    /\ df_trees = <<>>
    /\ forest_polygons = <<>>
    /\ df_temp = <<>>
    /\ df_aqi = <<>>
    /\ layers = <<>>
    /\ view_state = UnsetViewState
    /\ tooltip = UnsetTooltip
    /\ chart = <<>>
    /\ error = ""
    /\ memo = <<>>

\* lines 10-17
Sidebar(radii, elevations, bearings) ==
    /\ pc = "sidebar"
    /\ \E option \in ViewOptions, r \in radii, e \in elevations, b \in bearings :
          /\ view_option' = option
          /\ zoom_level' = ZoomLevel
          /\ radius' = r
          /\ elevation_scale' = e
          /\ pitch' = Pitch(option)
          /\ bearing' = b
    /\ pc' = "fetch"
    /\ UNCHANGED <<responses, shaped, derived, rendering, error, memo>>

SidebarAny == Sidebar(RadiusChoices, ElevationChoices, BearingChoices)
SidebarBearing == Sidebar(RadiusDefault, ElevationDefault, BearingChoices)

\* lines 50-51
Fetch(trees, forests) ==
    /\ pc = "fetch"
    /\ response_trees' \in trees
    /\ response_forest' \in forests
    /\ pc' = "assign"
    /\ UNCHANGED <<controls, shaped, derived, rendering, error, memo>>

FetchAny == Fetch(TreeResponses, ForestResponses)
FetchLong == Fetch(LongTreeResponses, OneForestResponse)
FetchFew == Fetch(FewTreeResponses, FewForestResponses)

\* mutant: line 55 missing, the polygon list is not emptied
Assign_KeepsPolygons ==
    /\ pc = "assign"
    /\ tree_locations' = <<>>
    /\ df_trees' = <<>>
    /\ pc' = "shape_trees"
    /\ UNCHANGED <<controls, responses, forest_polygons, derived, rendering,
                   error, memo>>

\* lines 53-55
Assign ==
    /\ pc = "assign"
    /\ tree_locations' = <<>>
    /\ df_trees' = <<>>
    /\ forest_polygons' = <<>>
    /\ pc' = "shape_trees"
    /\ UNCHANGED <<controls, responses, derived, rendering, error, memo>>

\* lines 57-63
ShapeTrees ==
    /\ pc = "shape_trees"
    /\ IF response_trees.status_code = 200
       THEN LET data_trees == response_trees.json
                elements == Get(data_trees, "elements", <<>>)
            IN  IF TreeKeyError(elements) = ""
                THEN /\ tree_locations' = TreeLocations(elements)
                     /\ df_trees' = tree_locations'
                     /\ pc' = "shape_forest"
                     /\ UNCHANGED error
                ELSE /\ error' = TreeKeyError(elements)
                     /\ pc' = "done"
                     /\ UNCHANGED <<tree_locations, df_trees>>
       ELSE /\ pc' = "shape_forest"
            /\ UNCHANGED <<tree_locations, df_trees, error>>
    /\ UNCHANGED <<controls, responses, forest_polygons, derived, rendering, memo>>

\* lines 65-70
ShapeForest ==
    /\ pc = "shape_forest"
    /\ IF response_forest.status_code = 200
       THEN LET data_forest == response_forest.json
                elements == Get(data_forest, "elements", <<>>)
            IN  IF ForestKeyError(elements) = ""
                THEN /\ forest_polygons' = ForestPolygons(elements)
                     /\ pc' = "derive"
                     /\ UNCHANGED error
                ELSE /\ error' = ForestKeyError(elements)
                     /\ pc' = "done"
                     /\ UNCHANGED forest_polygons
       ELSE /\ pc' = "derive"
            /\ UNCHANGED <<forest_polygons, error>>
    /\ UNCHANGED <<controls, responses, tree_locations, df_trees, derived,
                   rendering, memo>>

\* lines 72-75
Derive ==
    /\ pc = "derive"
    /\ df_temp' = DfTemp(df_trees)
    /\ df_aqi' = DfAqi(df_trees)
    /\ pc' = "render"
    /\ UNCHANGED <<controls, responses, shaped, rendering, error, memo>>

\* lines 137-159
Render ==
    /\ pc = "render"
    /\ IF df_trees # <<>>
       THEN /\ layers' = create_layer
            /\ view_state' = ViewState(df_trees)
            /\ tooltip' = Tooltip(view_option)
            /\ chart' = << Deck(layers', view_state', tooltip') >>
       ELSE UNCHANGED rendering
    /\ pc' = "done"
    /\ UNCHANGED <<controls, responses, shaped, derived, error, memo>>

\* the inputs of the pass and what it showed
PassRecord ==
    [inputs |-> <<view_option, radius, elevation_scale, bearing,
                  response_trees, response_forest>>,
     chart |-> chart, error |-> error]

\* The framework executes the script again from its first line on the next
\* interaction: the page is cleared; the values the names held are left in
\* place here, so that nothing but the script's own assignments replaces them.
Rerun ==
    /\ pc = "done"
    /\ pc' = "sidebar"
    /\ chart' = <<>>
    /\ error' = ""
    /\ \/ memo' = memo
       \/ memo' = << PassRecord >>
    /\ UNCHANGED <<controls, responses, shaped, derived, layers, view_state, tooltip>>

\* one pass over the exhaustive inputs
Next ==
    \/ SidebarAny
    \/ FetchAny
    \/ Assign
    \/ ShapeTrees
    \/ ShapeForest
    \/ Derive
    \/ Render

Spec == Init /\ [][Next]_vars

\* one pass over the long tree answers
NextLong ==
    \/ SidebarAny
    \/ FetchLong
    \/ Assign
    \/ ShapeTrees
    \/ ShapeForest
    \/ Derive
    \/ Render

SpecLong == Init /\ [][NextLong]_vars

\* any number of passes over the small inputs
NextRerun ==
    \/ SidebarBearing
    \/ FetchFew
    \/ Assign
    \/ ShapeTrees
    \/ ShapeForest
    \/ Derive
    \/ Render
    \/ Rerun

SpecRerun == Init /\ [][NextRerun]_vars

----------------------------------------------------------------------------
(* Properties                                                              *)

TreeErrors == {"KeyError: 'lat'", "KeyError: 'lon'"}

\* the step of lines 57-63 has completed without an exception
TreesShaped ==
    /\ pc \in {"shape_forest", "derive", "render", "done"}
    /\ error \notin TreeErrors

\* the step of lines 65-70 has been executed (it completed or it raised)
ForestStepTaken ==
    /\ pc \in {"derive", "render", "done"}
    /\ error \notin TreeErrors

\* the step of lines 72-75 has completed
DerivedDone == pc = "render" \/ (pc = "done" /\ error = "")

TreeElems == Get(response_trees.json, "elements", <<>>)
ForestElems == Get(response_forest.json, "elements", <<>>)
HasGeometry(element) == "geometry" \in DOMAIN element
HasPosition(element) == {"lat", "lon"} \subseteq DOMAIN element
AllHavePosition == \A k \in 1..Len(TreeElems) : HasPosition(TreeElems[k])
AllHaveGeometry == \A k \in 1..Len(ForestElems) : HasGeometry(ForestElems[k])
Rendered == chart # <<>>

\* C1 (as claimed): after forest shaping of a 200 answer no error was raised
\* and there is exactly one polygon per element with a geometry, its ring the
\* element's vertices as (lon, lat) pairs in order; elements without a
\* geometry are skipped.
C1_SkipsMissingGeometry ==
    (ForestStepTaken /\ response_forest.status_code = 200) =>
        /\ error = ""
        /\ LET kept == SelectSeq(ForestElems, HasGeometry)
           IN  /\ Len(forest_polygons) = Len(kept)
               /\ \A k \in 1..Len(kept) :
                      /\ Len(forest_polygons[k].coordinates) = 1
                      /\ LET ring == forest_polygons[k].coordinates[1]
                             geometry == kept[k].geometry
                         IN  /\ Len(ring) = Len(geometry)
                             /\ \A v \in 1..Len(geometry) :
                                    ring[v] = <<geometry[v].lon, geometry[v].lat>>

\* C2 (as claimed): a pass whose tree fetch was not answered with 200 ends
\* with no tree rows and with a view state assembled at the default target
\* (-73.95, 40.75).  Stated for the passes that end without an exception.
C2_DefaultCameraOnFailure ==
    (pc = "done" /\ error = "" /\ response_trees.status_code # 200) =>
        /\ df_trees = <<>>
        /\ view_state.longitude = <<-7395, 1>>
        /\ view_state.latitude = <<4075, 1>>

\* C3 (as claimed): a non-200 answer to one fetch raises no error and empties
\* that fetch's data only; the layer built from the other fetch's 200 answer
\* is still rendered.
C3_OtherLayerStillRendered ==
    /\ (pc = "done" /\ response_trees.status_code # 200 /\ AllHaveGeometry) =>
           error = ""
    /\ (pc = "done" /\ response_forest.status_code # 200 /\ AllHavePosition) =>
           error = ""
    /\ ( /\ pc = "done"
         /\ view_option = "Tree Canopy Coverage"
         /\ response_trees.status_code # 200
         /\ response_forest.status_code = 200
         /\ AllHaveGeometry
         /\ ForestElems # <<>> ) =>
           /\ Rendered
           /\ \E k \in 1..Len(chart[1].layers) :
                  /\ chart[1].layers[k].type = "PolygonLayer"
                  /\ Len(chart[1].layers[k].data) = Len(ForestElems)
    /\ ( /\ pc = "done"
         /\ view_option = "Tree Canopy Coverage"
         /\ response_trees.status_code = 200
         /\ AllHavePosition
         /\ TreeElems # <<>>
         /\ response_forest.status_code # 200 ) =>
           /\ Rendered
           /\ Len(chart[1].layers) = 2
           /\ chart[1].layers[1].type = "ScatterplotLayer"
           /\ Len(chart[1].layers[1].data) = Len(TreeElems)
           /\ chart[1].layers[2].type = "PolygonLayer"
           /\ chart[1].layers[2].data = <<>>

\* C4: after tree shaping of a 200 answer whose elements all carry lat and
\* lon, the table has one row per element, in the answer's order, row k
\* holding exactly the lat and lon of element k; without an "elements" key
\* the table has no rows.
C4_TreeShapingPreserves ==
    (TreesShaped /\ response_trees.status_code = 200 /\ AllHavePosition) =>
        /\ Len(df_trees) = Len(TreeElems)
        /\ tree_locations = df_trees
        /\ \A k \in 1..Len(TreeElems) :
               /\ DOMAIN df_trees[k] = {"lat", "lon"}
               /\ df_trees[k].lat = TreeElems[k].lat
               /\ df_trees[k].lon = TreeElems[k].lon
        /\ ("elements" \notin DOMAIN response_trees.json => df_trees = <<>>)

C4_Witness ==
    /\ pc = "done"
    /\ response_trees.status_code = 200
    /\ TreeElems = <<TreeB, TreeA>>
    /\ df_trees = << [lat |-> 4071, lon |-> -7399], [lat |-> 4075, lon |-> -7395] >>

\* C5: the layers handed to the renderer are fixed by the view mode: Tree
\* Density gives one HexagonLayer over the tree rows; Tree Canopy Coverage a
\* ScatterplotLayer over the tree rows followed by a PolygonLayer over the
\* forest polygons; Heat Island Effect one HeatmapLayer weighted by
\* temperature; Air Quality Correlation one HeatmapLayer weighted by aqi.
C5_LayerSelection ==
    Rendered =>
        LET ls == chart[1].layers
        IN  /\ ls = layers
            /\ view_option = "Tree Density" =>
                   /\ Len(ls) = 1
                   /\ ls[1].type = "HexagonLayer"
                   /\ ls[1].data = df_trees
            /\ view_option = "Tree Canopy Coverage" =>
                   /\ Len(ls) = 2
                   /\ ls[1].type = "ScatterplotLayer"
                   /\ ls[1].data = df_trees
                   /\ ls[2].type = "PolygonLayer"
                   /\ ls[2].data = forest_polygons
            /\ view_option = "Heat Island Effect" =>
                   /\ Len(ls) = 1
                   /\ ls[1].type = "HeatmapLayer"
                   /\ ls[1].get_weight = "temperature"
            /\ view_option = "Air Quality Correlation" =>
                   /\ Len(ls) = 1
                   /\ ls[1].type = "HeatmapLayer"
                   /\ ls[1].get_weight = "aqi"

C5_Witness ==
    /\ Rendered
    /\ view_option = "Tree Canopy Coverage"
    /\ forest_polygons = <<>>
    /\ radius = 200
    /\ Len(chart[1].layers) = 2

\* C6 (as claimed): at the end of every pass, a non-empty layer list was
\* produced for the render if and only if there are tree rows.
C6_LayersIffRows ==
    pc = "done" =>
        ((Rendered /\ chart[1].layers # <<>>) <=> (df_trees # <<>>))

\* C7: once the derived tables are built they have as many rows as the tree
\* table, row with index i carrying the tree row's lat and lon, temperature
\* 30 - (i mod 5) and aqi 100 - (i mod 50); temperature lies in 26..30 and
\* aqi in 51..100; with no tree rows the tables are empty and no error is
\* raised.
C7_DerivedSamples ==
    DerivedDone =>
        /\ Len(df_temp) = Len(df_trees)
        /\ Len(df_aqi) = Len(df_trees)
        /\ \A k \in 1..Len(df_trees) :
               /\ df_temp[k].lat = df_trees[k].lat
               /\ df_temp[k].lon = df_trees[k].lon
               /\ df_temp[k].temperature = <<30 - ((k - 1) % 5), 1>>
               /\ df_temp[k].temperature[1] \in 26..30
               /\ df_aqi[k].lat = df_trees[k].lat
               /\ df_aqi[k].lon = df_trees[k].lon
               /\ df_aqi[k].aqi = <<100 - ((k - 1) % 50), 1>>
               /\ df_aqi[k].aqi[1] \in 51..100
        /\ (df_trees = <<>> => error = "")

C7_Witness ==
    /\ pc = "done"
    /\ Len(df_aqi) >= 52
    /\ df_aqi[50].aqi = <<51, 1>>
    /\ df_aqi[51].aqi = <<100, 1>>
    /\ df_temp[6].temperature = <<30, 1>>

\* C8: whenever there are tree rows and the pass ends without an error, a
\* deck is rendered; and the camera target of every rendered deck is the
\* mean lon and the mean lat of the rows shaped from the tree answer (for a
\* single element, that element's lon and lat).
C8_CameraIsMean ==
    /\ (pc = "done" /\ error = "" /\ df_trees # <<>>) => Rendered
    /\ Rendered =>
           LET vs == chart[1].initial_view_state
               n == Len(TreeElems)
               lons == [k \in 1..n |-> TreeElems[k].lon]
               lats == [k \in 1..n |-> TreeElems[k].lat]
           IN  /\ response_trees.status_code = 200
               /\ n = Len(df_trees)
               /\ n > 0
               /\ vs.longitude[2] > 0
               /\ vs.latitude[2] > 0
               /\ vs.longitude[1] * n = vs.longitude[2] * SumSeq(lons)
               /\ vs.latitude[1] * n = vs.latitude[2] * SumSeq(lats)
               /\ (n = 1 => /\ vs.longitude = <<TreeElems[1].lon, 1>>
                            /\ vs.latitude = <<TreeElems[1].lat, 1>>)

C8_Witness ==
    /\ Rendered
    /\ TreeElems = <<TreeA, TreeB>>
    /\ chart[1].initial_view_state.longitude = <<-7397, 1>>
    /\ chart[1].initial_view_state.latitude = <<4073, 1>>

\* C9 (as claimed): zoom, pitch and bearing of the rendered view state are
\* user-controlled inputs independent of the view mode: two rendering passes
\* with the sliders in the same positions show the same zoom, pitch and
\* bearing.
C9_CameraFollowsSlidersOnly ==
    ( /\ Rendered
      /\ memo # <<>>
      /\ memo[1].chart # <<>>
      /\ memo[1].inputs[2] = radius
      /\ memo[1].inputs[3] = elevation_scale
      /\ memo[1].inputs[4] = bearing ) =>
        LET vs == chart[1].initial_view_state
            before == memo[1].chart[1].initial_view_state
        IN  /\ vs.zoom = before.zoom
            /\ vs.pitch = before.pitch
            /\ vs.bearing = before.bearing

\* C9 (amended): the rendered view state carries the bearing chosen with the
\* bearing slider (0..360); zoom is the constant 12; pitch is 45 in Tree
\* Density mode and 0 in every other mode.
C9_CameraControls ==
    Rendered =>
        LET vs == chart[1].initial_view_state
        IN  /\ vs.bearing = bearing
            /\ bearing \in 0..360
            /\ vs.zoom = 12
            /\ vs.pitch = (IF view_option = "Tree Density" THEN 45 ELSE 0)
            /\ vs = view_state

C9_Witness ==
    /\ Rendered
    /\ view_option = "Heat Island Effect"
    /\ bearing = 360
    /\ chart[1].initial_view_state.pitch = 0
    /\ chart[1].initial_view_state.bearing = 360
    /\ memo # <<>>
    /\ memo[1].chart # <<>>
    /\ memo[1].chart[1].initial_view_state.pitch = 45

\* C10: a pass that had the same control values and the same two answers as
\* an earlier pass shows exactly what that pass showed (the same deck or none,
\* the same error or none), whatever passes ran in between.
C10_Stateless ==
    ( /\ pc = "done"
      /\ memo # <<>>
      /\ memo[1].inputs = PassRecord.inputs ) =>
        /\ chart = memo[1].chart
        /\ error = memo[1].error

C10_Witness ==
    /\ pc = "done"
    /\ memo # <<>>
    /\ memo[1].inputs = PassRecord.inputs
    /\ Rendered
    /\ view_option = "Tree Canopy Coverage"
    /\ response_forest.status_code # 200
    /\ chart[1].layers[2].data = <<>>

====
